---- MODULE Spec2Model ----
\* Model of src/src/ui/multi_agent.py: the multi-agent orchestration loop
\* (MultiAgentOrchestrator.orchestrate) and the request handler run_multi_agent
\* with its approval gate and publish path.
\*
\* Text is modelled as a sequence of one-character strings, so that upper(),
\* strip(), the `in` test, find() and rfind() are computed on characters.
EXTENDS Integers, Sequences, FiniteSets, TLC

\* ---------------------------------------------------------------- text

\* Python's None (for a str-or-None value); distinct from every text.
None == <<"<None>">>

\* The backquote character (a markdown fence is three of them).
BQ == "backquote"

Whitespace == {" ", "\n", "\t"}

LowerLetters ==
    <<"a","b","c","d","e","f","g","h","i","j","k","l","m",
      "n","o","p","q","r","s","t","u","v","w","x","y","z">>

UpperLetters ==
    <<"A","B","C","D","E","F","G","H","I","J","K","L","M",
      "N","O","P","Q","R","S","T","U","V","W","X","Y","Z">>

\* str.upper() on one character.
UpperChar(c) ==
    IF \E k \in 1..26 : LowerLetters[k] = c
    THEN UpperLetters[CHOOSE k \in 1..26 : LowerLetters[k] = c]
    ELSE c

\* str.upper()
Upper(s) == [i \in 1..Len(s) |-> UpperChar(s[i])]

\* str.strip()
Strip(s) ==
    LET keep == {i \in 1..Len(s) : s[i] \notin Whitespace}
    IN IF keep = {} THEN <<>>
       ELSE LET lo == CHOOSE i \in keep : \A j \in keep : i <= j
                hi == CHOOSE i \in keep : \A j \in keep : j <= i
            IN SubSeq(s, lo, hi)

\* p occurs in s at the 1-based position i.
OccursAt(p, s, i) ==
    /\ i >= 1
    /\ i + Len(p) - 1 <= Len(s)
    /\ \A k \in 1..Len(p) : s[i + k - 1] = p[k]

\* Python's `p in s` on strings.
In(p, s) == \E i \in 1..(Len(s) + 1) : OccursAt(p, s, i)

\* Only None counts as missing, the empty string does not.
TruthyNotNone(v) == v # None

\* Python's truthiness of a str-or-None value.
Truthy(v) == v # None /\ v # <<>>

\* ---------------------------------------------------------------- literals of the code

\* "READY FOR USER APPROVAL"
READY_FOR_USER_APPROVAL ==
    <<"R","E","A","D","Y"," ","F","O","R"," ","U","S","E","R"," ","A","P","P","R","O","V","A",
      "L">>

\* "APPROVED"
APPROVED ==
    <<"A","P","P","R","O","V","E","D">>

\* "NOT APPROVED"
NOT_APPROVED ==
    <<"N","O","T"," ","A","P","P","R","O","V","E","D">>

\* "nothing to commit"
NothingToCommit ==
    <<"n","o","t","h","i","n","g"," ","t","o"," ","c","o","m","m","i","t">>

\* "main"
MainBranch ==
    <<"m","a","i","n">>

\* ---------------------------------------------------------------- artifact extraction

Fence == <<BQ,BQ,BQ>>

FenceHtml == <<BQ,BQ,BQ,"h","t","m","l">>

Doctype == <<"<","!","D","O","C","T","Y","P","E"," ","h","t","m","l",">">>

HtmlOpen == <<"<","h","t","m","l">>

HtmlClose == <<"<","/","h","t","m","l",">">>

SetMin(S) == CHOOSE x \in S : \A y \in S : x <= y
SetMax(S) == CHOOSE x \in S : \A y \in S : y <= x

\* The number of whitespace characters of s from position i on (regex \s*, greedy).
WsRun(s, i) ==
    SetMin({j \in i..(Len(s) + 1) : j = Len(s) + 1 \/ s[j] \notin Whitespace}) - i

\* str.find(p) and str.rfind(p), as 1-based positions; 0 when p does not occur.
Find(p, s) ==
    LET at == {i \in 1..Len(s) : OccursAt(p, s, i)}
    IN IF at = {} THEN 0 ELSE SetMin(at)

RFind(p, s) ==
    LET at == {i \in 1..Len(s) : OccursAt(p, s, i)}
    IN IF at = {} THEN 0 ELSE SetMax(at)

\* str.startswith(p)
StartsWith(s, p) == OccursAt(p, s, 1)

\* The closing part of the patterns at position j: \n\s*``` (pattern 1, nl TRUE)
\* or \s*``` (pattern 2, nl FALSE). ClosingEnd is the position after the match.
ClosingAt(s, j, nl) ==
    IF nl
    THEN /\ j <= Len(s)
         /\ s[j] = "\n"
         /\ OccursAt(Fence, s, j + 1 + WsRun(s, j + 1))
    ELSE OccursAt(Fence, s, j + WsRun(s, j))

ClosingEnd(s, j, nl) ==
    IF nl THEN j + 1 + WsRun(s, j + 1) + 3 ELSE j + WsRun(s, j) + 3

\* The regex match that starts at position i, as the backtracking matcher finds
\* it: ```html, then \s* (greedy: the longest run first) and, in pattern 1,
\* a newline, then the group ([\s\S]*?) (lazy: the shortest first), then the
\* closing part. [ok, group, end].
FenceMatch(s, i, nl) ==
    IF ~OccursAt(FenceHtml, s, i)
    THEN [ok |-> FALSE, group |-> <<>>, end |-> i]
    ELSE
    LET a == i + 7
        w == WsRun(s, a)
        groupStart(k) == IF nl THEN a + k + 1 ELSE a + k
        closings(k) == {j \in groupStart(k)..(Len(s) + 1) : ClosingAt(s, j, nl)}
        ks == {k \in 0..w : /\ nl => (a + k <= Len(s) /\ s[a + k] = "\n")
                            /\ closings(k) # {}}
    IN IF ks = {}
       THEN [ok |-> FALSE, group |-> <<>>, end |-> i]
       ELSE LET k == SetMax(ks)
                j == SetMin(closings(k))
            IN [ok |-> TRUE,
                group |-> SubSeq(s, groupStart(k), j - 1),
                end |-> ClosingEnd(s, j, nl)]

\* re.findall(pattern, content): the groups of the non-overlapping matches,
\* found left to right from position pos.
RECURSIVE FindAll(_, _, _)
FindAll(s, pos, nl) ==
    LET starts == {i \in pos..Len(s) : FenceMatch(s, i, nl).ok}
    IN IF starts = {}
       THEN <<>>
       ELSE LET m == FenceMatch(s, SetMin(starts), nl)
            IN <<m.group>> \o FindAll(s, m.end, nl)

\* content[start:end+7].strip() of pattern 3, for the opening marker p.
DirectHtml(content, p, html_content) ==
    LET start == Find(p, content)
        end == RFind(HtmlClose, content)
    IN IF end # 0
       THEN Strip(SubSeq(content, start, end + 6))
       ELSE html_content

\* One pass of the extraction loop's body: html_content after this message.
ExtractFrom(content, html_content) ==
    IF content = None
    THEN html_content
    ELSE
    LET m1 == FindAll(content, 1, TRUE)
        m2 == FindAll(content, 1, FALSE)
    IN IF m1 # <<>>
       THEN Strip(m1[Len(m1)])
       ELSE IF m2 # <<>>
       THEN Strip(m2[Len(m2)])
       ELSE IF In(Doctype, content)
       THEN DirectHtml(content, Doctype, html_content)
       ELSE IF StartsWith(Strip(content), HtmlOpen)
       THEN DirectHtml(content, HtmlOpen, html_content)
       ELSE html_content

\* for message in results: ... (html_content starts as None)
RECURSIVE ExtractLoop(_, _, _)
ExtractLoop(msgs, n, html_content) ==
    IF n > Len(msgs)
    THEN html_content
    ELSE ExtractLoop(msgs, n + 1, ExtractFrom(msgs[n].content, html_content))

\* str.replace(p, "")
RECURSIVE Remove(_, _)
Remove(s, p) ==
    LET i == Find(p, s)
    IN IF i = 0
       THEN s
       ELSE SubSeq(s, 1, i - 1) \o Remove(SubSeq(s, i + Len(p), Len(s)), p)

\* html_content.replace("```html", "").replace("```", "").strip()
StripFences(html_content) == Strip(Remove(Remove(html_content, FenceHtml), Fence))

\* ---------------------------------------------------------------- inputs

\* "APPROVED"
InApproved ==
    <<"A","P","P","R","O","V","E","D">>

\* " approved\n"
InApprovedLower ==
    <<" ","a","p","p","r","o","v","e","d","\n">>

\* "NOT APPROVED"
InNotApproved ==
    <<"N","O","T"," ","A","P","P","R","O","V","E","D">>

\* "Not approved "
InNotApprovedLower ==
    <<"N","o","t"," ","a","p","p","r","o","v","e","d"," ">>

\* "Approved, ship it"
InApprovedShipIt ==
    <<"A","p","p","r","o","v","e","d",","," ","s","h","i","p"," ","i","t">>

\* "todo app"
InTodoApp ==
    <<"t","o","d","o"," ","a","p","p">>

\* "Plan: todo list"
BaPlan ==
    <<"P","l","a","n",":"," ","t","o","d","o"," ","l","i","s","t">>

\* "'''html\n<html>A</html>\n'''"
SeFencedHtml ==
    <<BQ,BQ,BQ,"h","t","m","l","\n","<","h","t","m","l",">","A","<","/","h","t","m","l",">",
      "\n",BQ,BQ,BQ>>

\* "Which storage?"
SeQuestion ==
    <<"W","h","i","c","h"," ","s","t","o","r","a","g","e","?">>

\* "READY FOR USER APPROVAL"
PoReadyUpper ==
    <<"R","E","A","D","Y"," ","F","O","R"," ","U","S","E","R"," ","A","P","P","R","O","V","A",
      "L">>

\* "Looks good. Ready for user approval."
PoReadyMixed ==
    <<"L","o","o","k","s"," ","g","o","o","d","."," ","R","e","a","d","y"," ","f","o","r"," ",
      "u","s","e","r"," ","a","p","p","r","o","v","a","l",".">>

\* "Missing delete button"
PoDefect ==
    <<"M","i","s","s","i","n","g"," ","d","e","l","e","t","e"," ","b","u","t","t","o","n">>

\* "fatal: repository not found\n"
CloneErrNotFound ==
    <<"f","a","t","a","l",":"," ","r","e","p","o","s","i","t","o","r","y"," ","n","o","t"," ",
      "f","o","u","n","d","\n">>

\* "nothing to commit, working tree clean"
CommitOutClean ==
    <<"n","o","t","h","i","n","g"," ","t","o"," ","c","o","m","m","i","t",","," ","w","o","r",
      "k","i","n","g"," ","t","r","e","e"," ","c","l","e","a","n">>

\* "fatal: unable to auto-detect email address"
CommitErrIdentity ==
    <<"f","a","t","a","l",":"," ","u","n","a","b","l","e"," ","t","o"," ","a","u","t","o","-",
      "d","e","t","e","c","t"," ","e","m","a","i","l"," ","a","d","d","r","e","s","s">>

\* "error: src refspec main does not match any"
PushErrNoMain ==
    <<"e","r","r","o","r",":"," ","s","r","c"," ","r","e","f","s","p","e","c"," ","m","a","i",
      "n"," ","d","o","e","s"," ","n","o","t"," ","m","a","t","c","h"," ","a","n","y">>

\* "! [rejected] main -> main (fetch first)"
PushErrRejected ==
    <<"!"," ","[","r","e","j","e","c","t","e","d","]"," ","m","a","i","n"," ","-",">"," ","m",
      "a","i","n"," ","(","f","e","t","c","h"," ","f","i","r","s","t",")">>

\* "fatal: Authentication failed"
PushErrAuth ==
    <<"f","a","t","a","l",":"," ","A","u","t","h","e","n","t","i","c","a","t","i","o","n"," ",
      "f","a","i","l","e","d">>

\* "https://github.com/o/app.git"
RepoUrl ==
    <<"h","t","t","p","s",":","/","/","g","i","t","h","u","b",".","c","o","m","/","o","/","a",
      "p","p",".","g","i","t">>

\* ---------------------------------------------------------------- bounds and constants

\* orchestrate's default max_iterations, used by run_multi_agent.
DefaultMaxIterations == 5

\* Largest max_iterations a direct call of orchestrate is given.
MaxIterations == 7

\* The message-count ceiling the design asks for (20 messages).
MessageCeiling == 20

\* ---------------------------------------------------------------- state

VARIABLES
    pc,             \* position of the request being handled ("idle": none)
    caller,         \* who called orchestrate: "run_multi_agent" or "direct"
    input,          \* the input of the request being handled
    max_iterations, \* orchestrate's parameter
    iteration,      \* orchestrate's loop variable
    results,        \* orchestrate's conversation
    completions,    \* the messages of each complete() call of this run, in order
    html_content,   \* run_multi_agent's extracted artifact
    response,       \* what the last request returned or raised
    html_file,      \* content of index.html, None when the file does not exist
    chat_history,   \* content of chat_history.json, None when it does not exist
    env,            \* the GitHub settings read from the environment
    temp_dir,       \* the scratch workspace of this attempt: "none", "exists", "removed"
    cmds,           \* the git commands this request has run, in order
    clone_result,   \* the clone's result
    commit_result,  \* the commit's result
    push_result,    \* the last push's result
    dest_file,      \* content of index.html in the scratch workspace, None when absent
    pending,        \* the return value waiting for the finally block
    other_pc,       \* position of a second, concurrent approve request
    other_dest_file \* what that request copied into its own workspace

runVars == <<caller, max_iterations, iteration, results, completions>>
fileVars == <<html_file, chat_history>>
pubVars == <<env, temp_dir, cmds, clone_result, commit_result, push_result, dest_file,
             pending>>
otherVars == <<other_pc, other_dest_file>>
vars == <<pc, input, response, html_content, runVars, fileVars, pubVars, otherVars>>

Message(role, agent, content) == [role |-> role, agent |-> agent, content |-> content]

NoResponse == [outcome |-> "none", detail |-> <<>>]
Outcome(o, d) == [outcome |-> o, detail |-> d]
NoEnv == [github_repo_url |-> None, github_pat |-> None,
          git_user_email |-> None, github_username |-> None]
NoResult == [returncode |-> 0, stderr |-> <<>>]

Init ==
    /\ pc = "idle"
    /\ caller = "none"
    /\ input = <<>>
    /\ max_iterations = 0
    /\ iteration = 0
    /\ results = <<>>
    /\ completions = <<>>
    /\ html_content = None
    /\ response = NoResponse
    /\ html_file = None
    /\ chat_history = None
    /\ env = NoEnv
    /\ temp_dir = "none"
    /\ cmds = <<>>
    /\ clone_result = NoResult
    /\ commit_result = NoResult
    /\ push_result = NoResult
    /\ dest_file = None
    /\ pending = NoResponse
    /\ other_pc = "idle"
    /\ other_dest_file = None

\* ---------------------------------------------------------------- orchestrate

\* The text an f-string puts in for a value.
NoneText ==
    <<"N","o","n","e">>

Str(v) == IF v = None THEN NoneText ELSE v

\* self.<agent>["instructions"], one text per agent.
Instructions(agent) == <<"instructions of " \o agent>>

\* "Review the current progress and continue: "
BaContinuePrefix ==
    <<"R","e","v","i","e","w"," ","t","h","e"," ","c","u","r","r","e","n","t"," ","p","r","o",
      "g","r","e","s","s"," ","a","n","d"," ","c","o","n","t","i","n","u","e",":"," ">>
\* "Based on the Business Analyst's requirements, implement the solution: "

\* "Based on the Business Analyst's requirements, implement the solution: "
SePrefix ==
    <<"B","a","s","e","d"," ","o","n"," ","t","h","e"," ","B","u","s","i","n","e","s","s"," ",
      "A","n","a","l","y","s","t","'","s"," ","r","e","q","u","i","r","e","m","e","n","t","s",
      ","," ","i","m","p","l","e","m","e","n","t"," ","t","h","e"," ","s","o","l","u","t","i",
      "o","n",":"," ">>
\* "Review the Software Engineer's implementation: "

\* "Review the Software Engineer's implementation: "
PoPrefix ==
    <<"R","e","v","i","e","w"," ","t","h","e"," ","S","o","f","t","w","a","r","e"," ","E","n",
      "g","i","n","e","e","r","'","s"," ","i","m","p","l","e","m","e","n","t","a","t","i","o",
      "n",":"," ">>
\* "None"

\* ba_message, se_message, po_message: what the agent is given to work on.
BaMessage(i, user_input, msgs) ==
    IF i = 0 THEN user_input ELSE BaContinuePrefix \o Str(msgs[Len(msgs)].content)

SeMessage(ba_response) == SePrefix \o Str(ba_response)

PoMessage(se_response) == PoPrefix \o Str(se_response)

\* The messages list given to complete().
ChatMessages(agent, message) ==
    <<[role |-> "system", content |-> Instructions(agent)],
      [role |-> "user", content |-> message]>>

\* The call made at this point of the loop, the conversation being msgs.
Completion(at, i, user_input, msgs) ==
    CASE at = "ba" -> ChatMessages("BusinessAnalyst", BaMessage(i, user_input, msgs))
      [] at = "se" -> ChatMessages("SoftwareEngineer", SeMessage(msgs[Len(msgs)].content))
      [] at = "po" -> ChatMessages("ProductOwner", PoMessage(msgs[Len(msgs)].content))

BaReplies == {BaPlan}
SeReplies == {SeFencedHtml, SeQuestion}
PoReplies == {PoReadyUpper, PoReadyMixed, PoDefect, None}

\* The loop test off by one: one iteration too many.
LoopContinuesInclusive(i, n) == i <= n

\* for iteration in range(max_iterations): is there an iteration i?
LoopContinues(i, n) == i < n

\* The readiness test without upper().
IsReadyCaseSensitive(po_response) == In(READY_FOR_USER_APPROVAL, po_response)

\* "READY FOR USER APPROVAL" in po_response.upper()
IsReady(po_response) == In(READY_FOR_USER_APPROVAL, Upper(po_response))

ApprovalPrompt == Message("system", "system", <<"approval prompt">>)

\* Where control goes when orchestrate returns to its caller.
OrchestrateReturns ==
    IF caller = "run_multi_agent"
    THEN /\ pc' = "save"
         /\ response' = response
    ELSE /\ pc' = "idle"
         /\ response' = Outcome("conversation", <<>>)

\* The run ends with an exception: run_multi_agent's finally block runs
\* cleanup(), which does nothing, and the exception reaches the caller.
Raises(exc) ==
    /\ pc' = "idle"
    /\ response' = Outcome(exc, <<>>)

\* orchestrate's entry: the user's message, then the loop's first test.
OrchestrateEnter(user_input, n) ==
    /\ max_iterations' = n
    /\ iteration' = 0
    /\ results' = <<Message("user", "User", user_input)>>
    /\ IF LoopContinues(0, n)
       THEN pc' = "ba" /\ response' = NoResponse
       ELSE /\ pc' = IF caller' = "run_multi_agent" THEN "save" ELSE "idle"
            /\ response' = IF caller' = "run_multi_agent" THEN NoResponse
                           ELSE Outcome("conversation", <<>>)

\* A direct call orchestrate(user_input, max_iterations).
CallOrchestrate ==
    /\ pc = "idle"
    /\ \E n \in 0..MaxIterations :
          /\ caller' = "direct"
          /\ input' = InTodoApp
          /\ OrchestrateEnter(InTodoApp, n)
    /\ completions' = <<>>
    /\ html_content' = None
    /\ UNCHANGED <<fileVars, pubVars>>
    /\ UNCHANGED otherVars

\* The analyst's turn handing over to the reviewer, the implementer skipped.
BusinessAnalystTurnSkipsEngineer ==
    /\ pc = "ba"
    /\ completions' = Append(completions, Completion("ba", iteration, input, results))
    /\ \E ba_response \in BaReplies :
          results' = Append(results, Message("assistant", "BusinessAnalyst", ba_response))
    /\ pc' = "po"
    /\ UNCHANGED <<caller, max_iterations, iteration, input, response, html_content,
                   fileVars, pubVars>>
    /\ UNCHANGED otherVars

BusinessAnalystTurn ==
    /\ pc = "ba"
    /\ completions' = Append(completions, Completion("ba", iteration, input, results))
    /\ \E ba_response \in BaReplies :
          results' = Append(results, Message("assistant", "BusinessAnalyst", ba_response))
    /\ pc' = "se"
    /\ UNCHANGED <<caller, max_iterations, iteration, input, response, html_content,
                   fileVars, pubVars>>
    /\ UNCHANGED otherVars

SoftwareEngineerTurn ==
    /\ pc = "se"
    /\ completions' = Append(completions, Completion("se", iteration, input, results))
    /\ \E se_response \in SeReplies :
          results' = Append(results, Message("assistant", "SoftwareEngineer", se_response))
    /\ pc' = "po"
    /\ UNCHANGED <<caller, max_iterations, iteration, input, response, html_content,
                   fileVars, pubVars>>
    /\ UNCHANGED otherVars

\* The reviewer's turn, the readiness test and the loop's next test.
ProductOwnerTurn ==
    /\ pc = "po"
    /\ completions' = Append(completions, Completion("po", iteration, input, results))
    /\ \E po_response \in PoReplies :
          LET appended == Append(results,
                                 Message("assistant", "ProductOwner", po_response))
          IN IF po_response = None
             THEN \* None.upper() raises AttributeError
                  /\ results' = appended
                  /\ iteration' = iteration
                  /\ Raises("AttributeError")
             ELSE IF IsReady(po_response)
             THEN /\ results' = Append(appended, ApprovalPrompt)
                  /\ iteration' = iteration
                  /\ OrchestrateReturns
             ELSE /\ results' = appended
                  /\ IF LoopContinues(iteration + 1, max_iterations)
                     THEN /\ iteration' = iteration + 1
                          /\ pc' = "ba"
                          /\ response' = response
                     ELSE /\ iteration' = iteration
                          /\ OrchestrateReturns
    /\ UNCHANGED <<caller, max_iterations, input, html_content, fileVars, pubVars>>
    /\ UNCHANGED otherVars

\* The failed call made a second time before the exception is let through.
ModelCallFailsRetries ==
    /\ pc \in {"ba", "se", "po"}
    /\ completions' = Append(completions, Completion(pc, iteration, input, results))
    /\ IF Len(completions) < Len(results)
       THEN pc' = pc /\ response' = response
       ELSE Raises("ModelInvocationError")
    /\ UNCHANGED <<input, html_content, caller, max_iterations, iteration, results,
                   fileVars, pubVars>>
    /\ UNCHANGED otherVars

\* complete() re-raises the model call's exception.
ModelCallFails ==
    /\ pc \in {"ba", "se", "po"}
    /\ completions' = Append(completions, Completion(pc, iteration, input, results))
    /\ Raises("ModelInvocationError")
    /\ UNCHANGED <<input, html_content, caller, max_iterations, iteration, results,
                   fileVars, pubVars>>
    /\ UNCHANGED otherVars

\* The caller abandons the run while it awaits a model response.
Abandon ==
    /\ pc \in {"ba", "se", "po"}
    /\ completions' = Append(completions, Completion(pc, iteration, input, results))
    /\ Raises("CancelledError")
    /\ UNCHANGED <<input, html_content, caller, max_iterations, iteration, results,
                   fileVars, pubVars>>
    /\ UNCHANGED otherVars

\* ---------------------------------------------------------------- run_multi_agent

Inputs == {InApproved, InApprovedLower, InNotApproved, InNotApprovedLower,
           InApprovedShipIt, InTodoApp}

GitHubPat == <<"t","o","k">>
GitHubUsername == <<"d","e","v">>
GitUserEmail == <<"d","@","x">>
HttpsScheme == <<"h","t","t","p","s",":","/","/">>
MasterBranch == <<"m","a","s","t","e","r">>

\* What os.getenv can return for the four GitHub settings.
Envs == [github_repo_url : {None, <<>>, RepoUrl},
         github_pat : {None, GitHubPat},
         git_user_email : {None, GitUserEmail},
         github_username : {None, GitHubUsername}]

\* The approval test without upper().
IsApprovedCaseSensitive(inp) == Strip(inp) = APPROVED

\* The approval test as a substring test.
IsApprovedContains(inp) == In(APPROVED, Upper(inp))

\* input.strip().upper() == "APPROVED"
IsApproved(inp) == Upper(Strip(inp)) = APPROVED

\* The reject test without the change of letter case.
IsNotApprovedCaseSensitive(inp) == Strip(inp) = NOT_APPROVED

\* input.strip().upper() == "NOT APPROVED"
IsNotApproved(inp) == Upper(Strip(inp)) = NOT_APPROVED

\* The existence test left out.
ExistsAlways(file) == TRUE

\* os.path.exists(html_path)
Exists(file) == file # None

\* The approve decision: lines 202-218, up to the scratch workspace.
Approve(e) ==
    /\ caller' = "none"
    /\ max_iterations' = 0
    /\ iteration' = 0
    /\ results' = <<>>
    /\ IF Exists(html_file)
       THEN /\ env' = e
            /\ IF ~Truthy(e.github_repo_url)
               THEN pc' = "idle" /\ response' = Outcome("not_configured", <<>>)
               ELSE pc' = "mkdtemp" /\ response' = NoResponse
       ELSE /\ env' = NoEnv
            /\ pc' = "idle"
            /\ response' = Outcome("no_artifact", <<>>)

\* The reject decision: lines 359-366.
Reject ==
    /\ caller' = "none"
    /\ max_iterations' = 0
    /\ iteration' = 0
    /\ results' = <<>>
    /\ env' = NoEnv
    /\ pc' = "idle"
    /\ response' = Outcome("acknowledged", <<>>)

\* Anything else: a fresh orchestrator, line 369.
StartRun ==
    /\ caller' = "run_multi_agent"
    /\ max_iterations' = 0
    /\ iteration' = 0
    /\ results' = <<>>
    /\ env' = NoEnv
    /\ pc' = "initialize"
    /\ response' = NoResponse

\* A request arrives: run_multi_agent(input), up to its first external step.
Request ==
    /\ pc = "idle"
    /\ \E inp \in Inputs :
          /\ input' = inp
          /\ IF IsApproved(inp)
             THEN \E e \in Envs : Approve(e)
             ELSE IF IsNotApproved(inp)
             THEN Reject
             ELSE StartRun
    /\ completions' = <<>>
    /\ html_content' = None
    /\ temp_dir' = "none"
    /\ cmds' = <<>>
    /\ clone_result' = NoResult
    /\ commit_result' = NoResult
    /\ push_result' = NoResult
    /\ dest_file' = None
    /\ pending' = NoResponse
    /\ UNCHANGED fileVars
    /\ UNCHANGED otherVars

\* orchestrator.initialize(), then orchestrate(input) with the default ceiling.
Initialize ==
    /\ pc = "initialize"
    /\ \E configured \in BOOLEAN :
          IF configured
          THEN OrchestrateEnter(input, DefaultMaxIterations)
          ELSE /\ Raises("ValueError")
               /\ UNCHANGED <<max_iterations, iteration, results>>
    /\ UNCHANGED <<caller, input, completions, html_content, fileVars, pubVars>>
    /\ UNCHANGED otherVars

\* json.dump(results, f): the transcript file is only ever written, never read
\* back, and is modelled by the role and author of each message dumped.
Transcript(msgs) ==
    [i \in 1..Len(msgs) |-> [role |-> msgs[i].role, agent |-> msgs[i].agent]]

\* The artifact file removed when the run extracted nothing.
SaveAndExtractClearsArtifact ==
    /\ pc = "save"
    /\ chat_history' = Transcript(results)
    /\ LET found == ExtractLoop(results, 1, None)
       IN IF Truthy(found)
          THEN /\ html_content' = StripFences(found)
               /\ html_file' = <<>>
               /\ pc' = "write"
               /\ response' = response
          ELSE /\ html_content' = found
               /\ html_file' = None
               /\ pc' = "idle"
               /\ response' = Outcome("conversation", <<>>)
    /\ UNCHANGED <<input, runVars, pubVars>>
    /\ UNCHANGED otherVars

\* json.dump(results) to chat_history.json, the extraction loop, and open(html_path, "w").
SaveAndExtract ==
    /\ pc = "save"
    /\ chat_history' = Transcript(results)
    /\ LET found == ExtractLoop(results, 1, None)
       IN IF Truthy(found)
          THEN /\ html_content' = StripFences(found)
               /\ html_file' = <<>>
               /\ pc' = "write"
               /\ response' = response
          ELSE /\ html_content' = found
               /\ html_file' = html_file
               /\ pc' = "idle"
               /\ response' = Outcome("conversation", <<>>)
    /\ UNCHANGED <<input, runVars, pubVars>>
    /\ UNCHANGED otherVars

\* f.write(html_content), then return {"messages": results}.
WriteHtml ==
    /\ pc = "write"
    /\ html_file' = html_content
    /\ pc' = "idle"
    /\ response' = Outcome("conversation", <<>>)
    /\ UNCHANGED <<input, html_content, chat_history, runVars, pubVars>>
    /\ UNCHANGED otherVars

\* ---------------------------------------------------------------- publish path

\* str.replace(p, r)
RECURSIVE Replace(_, _, _)
Replace(s, p, r) ==
    LET i == Find(p, s)
    IN IF i = 0
       THEN s
       ELSE SubSeq(s, 1, i - 1) \o r \o Replace(SubSeq(s, i + Len(p), Len(s)), p, r)

\* The URL given to git clone: the credentials are embedded when both are set.
AuthUrl(e) ==
    IF Truthy(e.github_pat) /\ Truthy(e.github_username)
    THEN Replace(e.github_repo_url, HttpsScheme,
                 HttpsScheme \o e.github_username \o <<":">> \o e.github_pat \o <<"@">>)
    ELSE e.github_repo_url

Cmd(name, arg) == [name |-> name, arg |-> arg]

\* What a git command can report: its exit status and its output.
CloneResults == {[returncode |-> 0, stderr |-> <<>>],
                 [returncode |-> 128, stderr |-> CloneErrNotFound],
                 [returncode |-> 128, stderr |-> <<>>]}

CommitResults == {[returncode |-> 0, stdout |-> <<>>, stderr |-> <<>>],
                  [returncode |-> 1, stdout |-> CommitOutClean, stderr |-> <<>>],
                  [returncode |-> 128, stdout |-> <<>>, stderr |-> CommitErrIdentity]}

PushResults == {[returncode |-> 0, stderr |-> <<>>],
                [returncode |-> 1, stderr |-> PushErrNoMain],
                [returncode |-> 1, stderr |-> PushErrRejected],
                [returncode |-> 128, stderr |-> PushErrAuth]}

\* A return statement inside the try block: the finally block runs first.
ReturnsAfterFinally(o) ==
    /\ pending' = o
    /\ pc' = "rmtree"

\* temp_dir = tempfile.mkdtemp()
MakeTempDir ==
    /\ pc = "mkdtemp"
    /\ temp_dir' = "exists"
    /\ pc' = "clone"
    /\ UNCHANGED <<input, response, html_content, runVars, fileVars, env, cmds,
                   clone_result, commit_result, push_result, pending, dest_file>>
    /\ UNCHANGED otherVars

\* mkdtemp raises: the outer except reports it, no workspace was created.
MakeTempDirFails ==
    /\ pc = "mkdtemp"
    /\ pc' = "idle"
    /\ response' = Outcome("push_error", <<>>)
    /\ UNCHANGED <<input, html_content, runVars, fileVars, pubVars>>
    /\ UNCHANGED otherVars

\* git clone auth_url temp_dir
Clone ==
    /\ pc = "clone"
    /\ cmds' = Append(cmds, Cmd("clone", AuthUrl(env)))
    /\ \E r \in CloneResults :
          /\ clone_result' = r
          /\ IF r.returncode # 0
             THEN ReturnsAfterFinally(
                      Outcome("clone_failed",
                              IF Truthy(r.stderr)
                              THEN Strip(r.stderr)
                              ELSE <<"Unknown error">>))
             ELSE pc' = "copy" /\ pending' = pending
    /\ UNCHANGED <<input, response, html_content, runVars, fileVars, env, temp_dir,
                   commit_result, push_result, dest_file>>
    /\ UNCHANGED otherVars

\* The artifact moved into the workspace instead of copied.
CopyArtifactMoves ==
    /\ pc = "copy"
    /\ dest_file' = html_file
    /\ html_file' = None
    /\ pc' = "config"
    /\ UNCHANGED <<input, response, html_content, runVars, chat_history, env, temp_dir,
                   cmds, clone_result, commit_result, push_result, pending>>
    /\ UNCHANGED otherVars

\* shutil.copy2(html_path, dest_path)
CopyArtifact ==
    /\ pc = "copy"
    /\ dest_file' = html_file
    /\ pc' = "config"
    /\ UNCHANGED <<input, response, html_content, runVars, fileVars, env, temp_dir, cmds,
                   clone_result, commit_result, push_result, pending>>
    /\ UNCHANGED otherVars

\* git config user.email / user.name, each only when the setting is present.
GitConfig ==
    /\ pc = "config"
    /\ cmds' = cmds
               \o (IF Truthy(env.git_user_email)
                   THEN <<Cmd("config user.email", env.git_user_email)>> ELSE <<>>)
               \o (IF Truthy(env.github_username)
                   THEN <<Cmd("config user.name", env.github_username)>> ELSE <<>>)
    /\ pc' = "add"
    /\ UNCHANGED <<input, response, html_content, runVars, fileVars, env, temp_dir,
                   clone_result, commit_result, push_result, pending, dest_file>>
    /\ UNCHANGED otherVars

\* git add index.html (its result is not looked at)
GitAdd ==
    /\ pc = "add"
    /\ cmds' = Append(cmds, Cmd("add", <<>>))
    /\ pc' = "commit"
    /\ UNCHANGED <<input, response, html_content, runVars, fileVars, env, temp_dir,
                   clone_result, commit_result, push_result, pending, dest_file>>
    /\ UNCHANGED otherVars

\* The test looking at the error output only.
SaysNothingToCommitOnStderr(r) == In(NothingToCommit, r.stderr)

\* "nothing to commit" in commit_result.stdout or ... in commit_result.stderr
SaysNothingToCommit(r) ==
    In(NothingToCommit, r.stdout) \/ In(NothingToCommit, r.stderr)

\* git commit, and the test for "nothing to commit"
GitCommit ==
    /\ pc = "commit"
    /\ cmds' = Append(cmds, Cmd("commit", <<>>))
    /\ \E r \in CommitResults :
          /\ commit_result' = r
          /\ IF r.returncode # 0
             THEN IF SaysNothingToCommit(r)
                  THEN ReturnsAfterFinally(Outcome("nothing_to_commit", <<>>))
                  ELSE ReturnsAfterFinally(Outcome("commit_failed", r.stderr))
             ELSE pc' = "push_main" /\ pending' = pending
    /\ UNCHANGED <<input, response, html_content, runVars, fileVars, env, temp_dir,
                   clone_result, push_result, dest_file>>
    /\ UNCHANGED otherVars

\* The retry taken after every failed push.
RetriesMasterAlways(r) == r.returncode # 0

\* if push_result.returncode != 0 and "main" in push_result.stderr
RetriesMaster(r) == r.returncode # 0 /\ In(MainBranch, r.stderr)

\* The report of the final push_result.
PushOutcome(r) ==
    IF r.returncode = 0
    THEN Outcome("success", <<>>)
    ELSE Outcome("push_failed", r.stderr)

\* git push origin main
PushMain ==
    /\ pc = "push_main"
    /\ cmds' = Append(cmds, Cmd("push", MainBranch))
    /\ \E r \in PushResults :
          /\ push_result' = r
          /\ IF RetriesMaster(r)
             THEN pc' = "push_master" /\ pending' = pending
             ELSE ReturnsAfterFinally(PushOutcome(r))
    /\ UNCHANGED <<input, response, html_content, runVars, fileVars, env, temp_dir,
                   clone_result, commit_result, dest_file>>
    /\ UNCHANGED otherVars

\* git push origin master
PushMaster ==
    /\ pc = "push_master"
    /\ cmds' = Append(cmds, Cmd("push", MasterBranch))
    /\ \E r \in PushResults :
          /\ push_result' = r
          /\ ReturnsAfterFinally(PushOutcome(r))
    /\ UNCHANGED <<input, response, html_content, runVars, fileVars, env, temp_dir,
                   clone_result, commit_result, dest_file>>
    /\ UNCHANGED otherVars

\* A step that raises with no outer except: the exception reaches the caller.
StepRaisesUncaught ==
    /\ pc \in {"clone", "copy", "config", "add", "commit", "push_main", "push_master"}
    /\ ReturnsAfterFinally(Outcome("Exception", <<>>))
    /\ UNCHANGED <<input, response, html_content, runVars, fileVars, env, temp_dir,
                   cmds, clone_result, commit_result, push_result, dest_file>>
    /\ UNCHANGED otherVars

\* A step inside the try block raises (git is missing, the artifact cannot be
\* copied, ...): the finally block runs, then the outer except reports it.
StepRaises ==
    /\ pc \in {"clone", "copy", "config", "add", "commit", "push_main", "push_master"}
    /\ ReturnsAfterFinally(Outcome("push_error", <<>>))
    /\ UNCHANGED <<input, response, html_content, runVars, fileVars, env, temp_dir,
                   cmds, clone_result, commit_result, push_result, dest_file>>
    /\ UNCHANGED otherVars

\* finally: try: shutil.rmtree(temp_dir) except: pass -- then the pending return.
\* A removal that raises is ignored and leaves the workspace behind.
RemoveTempDir ==
    /\ pc = "rmtree"
    /\ \E removed \in BOOLEAN :
          IF removed
          THEN temp_dir' = "removed" /\ dest_file' = None
          ELSE temp_dir' = "exists" /\ dest_file' = dest_file
    /\ pc' = "idle"
    /\ response' = pending
    /\ UNCHANGED <<input, html_content, runVars, fileVars, env, cmds,
                   clone_result, commit_result, push_result, pending>>
    /\ UNCHANGED otherVars

\* ---------------------------------------------------------------- specifications

NextOrch ==
    \/ CallOrchestrate
    \/ BusinessAnalystTurn
    \/ SoftwareEngineerTurn
    \/ ProductOwnerTurn
    \/ ModelCallFails
    \/ Abandon

SpecOrch == Init /\ [][NextOrch]_vars

\* Every model call that is awaited returns (or fails) in the end.
FairSpecOrch ==
    /\ SpecOrch
    /\ WF_vars(BusinessAnalystTurn)
    /\ WF_vars(SoftwareEngineerTurn)
    /\ WF_vars(ProductOwnerTurn)

Next ==
    \/ Request
    \/ Initialize
    \/ BusinessAnalystTurn
    \/ SoftwareEngineerTurn
    \/ ProductOwnerTurn
    \/ ModelCallFails
    \/ Abandon
    \/ SaveAndExtract
    \/ WriteHtml
    \/ MakeTempDir
    \/ MakeTempDirFails
    \/ Clone
    \/ CopyArtifact
    \/ GitConfig
    \/ GitAdd
    \/ GitCommit
    \/ PushMain
    \/ PushMaster
    \/ StepRaises
    \/ RemoveTempDir

Spec == Init /\ [][Next]_vars

\* ---------------------------------------------------------------- properties

\* The two characters are the same letter in either case, or the same character.
SameLetter(a, b) ==
    \/ a = b
    \/ \E n \in 1..26 : {a, b} = {LowerLetters[n], UpperLetters[n]}

\* p occurs in s, letter case ignored.
ContainsIgnoreCase(p, s) ==
    \E i \in 1..Len(s) :
        /\ i + Len(p) - 1 <= Len(s)
        /\ \A k \in 1..Len(p) : SameLetter(s[i + k - 1], p[k])

InOrchestrate == pc \in {"ba", "se", "po"}

Agents == <<"BusinessAnalyst", "SoftwareEngineer", "ProductOwner">>

\* The author of the n-th agent turn of a run (n = 1, 2, ...).
TurnAgent(n) == Agents[((n - 1) % 3) + 1]

\* The conversation's shape: the user's message, then the agents in order,
\* then at most one closing system message.
RoundRobinShape ==
    results # <<>> =>
        /\ results[1] = Message("user", "User", input)
        /\ \A i \in 2..Len(results) :
              \/ /\ results[i].role = "assistant"
                 /\ results[i].agent = TurnAgent(i - 1)
              \/ /\ i = Len(results)
                 /\ results[i].role = "system"
        /\ Len(results) >= 4 =>
              [i \in 1..4 |-> <<results[i].role, results[i].agent>>]
                  = << <<"user", "User">>, <<"assistant", "BusinessAnalyst">>,
                       <<"assistant", "SoftwareEngineer">>,
                       <<"assistant", "ProductOwner">> >>

\* A step that changes the conversation starts a new one with the user's
\* message or appends the turn of the agent whose turn it is (and, after the
\* ProductOwner, possibly the closing system message).
RoundRobinStep ==
    results' # results =>
        \/ results' = <<Message("user", "User", input')>>
        \/ /\ Len(results') \in {Len(results) + 1, Len(results) + 2}
           /\ SubSeq(results', 1, Len(results)) = results
           /\ results'[Len(results) + 1].role = "assistant"
           /\ results'[Len(results) + 1].agent = TurnAgent(Len(results))
           /\ Len(results') = Len(results) + 2 =>
                 /\ results'[Len(results) + 1].agent = "ProductOwner"
                 /\ results'[Len(results) + 2].role = "system"

\* C1: in every run of orchestrate the conversation starts with the user's
\* message and the agent turns are appended in the strict repeating order
\* BusinessAnalyst, SoftwareEngineer, ProductOwner; after one round the
\* sequence is user, BusinessAnalyst, SoftwareEngineer, ProductOwner.
C1_RoundRobin == []RoundRobinShape /\ [][RoundRobinStep]_vars

\* A second round has begun after a full first round.
C1_Witness ==
    /\ pc = "se"
    /\ iteration = 1
    /\ Len(results) = 5
    /\ results[5].agent = "BusinessAnalyst"

\* The message is a ProductOwner turn carrying the readiness phrase.
SignalsReadiness(msg) ==
    /\ msg.agent = "ProductOwner"
    /\ msg.content # None
    /\ ContainsIgnoreCase(READY_FOR_USER_APPROVAL, msg.content)

\* C2: a ProductOwner message with 'READY FOR USER APPROVAL' in any letter
\* case ends the run at once: it is followed by exactly one system message,
\* which is the last message, no agent turn is pending, and the system
\* message appears after no other message.
C2_ReadinessPauses ==
    \A i \in 1..Len(results) :
        /\ SignalsReadiness(results[i]) =>
              /\ Len(results) = i + 1
              /\ results[i + 1] = ApprovalPrompt
              /\ ~InOrchestrate
        /\ results[i].role = "system" =>
              /\ i > 1
              /\ SignalsReadiness(results[i - 1])

\* A run that returned after a mixed-case readiness signal in its second round.
C2_Witness ==
    /\ pc = "idle"
    /\ response.outcome = "conversation"
    /\ Len(results) = 8
    /\ results[7].content = PoReadyMixed
    /\ results[8] = ApprovalPrompt

\* The number of agent turns of the conversation.
AgentTurns == Cardinality({i \in 1..Len(results) : results[i].role = "assistant"})

TurnBound ==
    /\ AgentTurns <= 3 * max_iterations
    /\ InOrchestrate => iteration < max_iterations

\* Outside a run the conversation changes only when a new run starts it afresh.
NoTurnAfterReturn ==
    ~InOrchestrate => (results' = results \/ Len(results') = 1)

\* C3: for every max_iterations >= 0 and whatever the agents reply, a run
\* whose model calls return takes at most 3 * max_iterations agent turns in
\* at most max_iterations rounds and then terminates; after that no turn is
\* appended to its conversation.
C3_BoundedRun ==
    /\ []TurnBound
    /\ [][NoTurnAfterReturn]_vars
    /\ (InOrchestrate ~> ~InOrchestrate)

\* A run of two rounds that the ceiling stopped: the reviewer never signalled.
C3_Witness ==
    /\ pc = "idle"
    /\ response.outcome = "conversation"
    /\ max_iterations = 2
    /\ Len(results) = 7
    /\ results[7].agent = "ProductOwner"

\* C4: whatever max_iterations is, a run is stopped as soon as its
\* conversation holds more than MessageCeiling messages.
C4_MessageCeilingEnforced == Len(results) > MessageCeiling => ~InOrchestrate

\* The input is the word APPROVED in any letter case, surrounding whitespace aside.
IsApproveDecision(inp) ==
    LET word == Strip(inp)
    IN /\ Len(word) = Len(APPROVED)
       /\ \A k \in 1..Len(word) : SameLetter(word[k], APPROVED[k])

InRun == pc \in {"initialize", "ba", "se", "po", "save", "write"}

InPublish ==
    pc \in {"mkdtemp", "clone", "copy", "config", "add", "commit", "push_main",
            "push_master", "rmtree"}

PublishOutcomes ==
    {"no_artifact", "not_configured", "clone_failed", "nothing_to_commit",
     "commit_failed", "push_failed", "success", "push_error"}

\* The request being handled, or the last one handled, went to the approval gate.
HandledByApprovalGate ==
    /\ caller # "run_multi_agent"
    /\ ~InRun
    /\ IF pc = "idle" THEN response.outcome \in PublishOutcomes ELSE InPublish

\* C5 as stated: every input that contains APPROVED, letter case ignored and
\* whatever surrounds it, is handled by the approval gate and starts no run.
C5_ContainsApproved ==
    (input # <<>> /\ ContainsIgnoreCase(APPROVED, input)) => HandledByApprovalGate

\* C5, amended: every input that is the word APPROVED in any letter case,
\* surrounding whitespace ignored, is handled by the approval gate and starts
\* no orchestration run.
C5_ExactApproved == IsApproveDecision(input) => HandledByApprovalGate

\* A lower-case, padded approval on its way through the publish path.
C5_Witness ==
    /\ input = InApprovedLower
    /\ pc = "clone"

\* C6: git commands run, and a scratch workspace exists, only while an
\* approve decision is handled; a run, a reject decision and a failed or
\* abandoned run execute none.
C6_PublishOnlyOnApprove ==
    /\ (cmds # <<>> \/ temp_dir # "none" \/ InPublish) => IsApproveDecision(input)
    /\ (caller = "run_multi_agent" \/ response.outcome = "acknowledged") =>
          (cmds = <<>> /\ temp_dir = "none")

\* An approve decision whose push went through.
C6_Witness ==
    /\ pc = "idle"
    /\ response.outcome = "success"
    /\ \E i \in 1..Len(cmds) : cmds[i].name = "push"

\* C7: an approve decision with no artifact file returns the no-artifact
\* outcome at once, with no scratch workspace and no git command.
C7_NoArtifact ==
    /\ (IsApproveDecision(input) /\ html_file = None) =>
          /\ pc = "idle"
          /\ response.outcome = "no_artifact"
    /\ response.outcome = "no_artifact" =>
          /\ html_file = None
          /\ temp_dir = "none"
          /\ cmds = <<>>

\* An approve decision answered with the no-artifact outcome.
C7_Witness ==
    /\ pc = "idle"
    /\ IsApproveDecision(input)
    /\ response.outcome = "no_artifact"

\* The repository URL is missing or empty.
NotConfigured == env.github_repo_url \in {None, <<>>}

C8_State ==
    /\ (IsApproveDecision(input) /\ html_file # None /\ NotConfigured) =>
          /\ pc = "idle"
          /\ response.outcome = "not_configured"
    /\ response.outcome = "not_configured" =>
          /\ html_file # None
          /\ temp_dir = "none"
          /\ cmds = <<>>

C8_Step ==
    response'.outcome = "not_configured" => html_file' = html_file

\* C8: an approve decision with the artifact file present and no
\* GITHUB_REPO_URL returns the not-configured outcome: the file is still
\* there, unchanged, no scratch workspace is created and no git command runs.
C8_NotConfigured == []C8_State /\ [][C8_Step]_vars

\* The not-configured outcome for an empty GITHUB_REPO_URL.
C8_Witness ==
    /\ pc = "idle"
    /\ response.outcome = "not_configured"
    /\ env.github_repo_url = <<>>
    /\ html_file = Strip(SubSeq(SeFencedHtml, 8, Len(SeFencedHtml) - 3))

\* C9: an approve attempt that created a scratch workspace has removed it
\* by the time it returns, on every exit path.
C9_WorkspaceRemoved == pc = "idle" => temp_dir # "exists"

\* The branches pushed to by this attempt, in order.
Pushes ==
    LET at == {i \in 1..Len(cmds) : cmds[i].name = "push"}
        RECURSIVE Collect(_)
        Collect(i) ==
            IF i > Len(cmds) THEN <<>>
            ELSE (IF i \in at THEN <<cmds[i].arg>> ELSE <<>>) \o Collect(i + 1)
    IN Collect(1)

\* The attempt is past its pushes: it is cleaning up or has returned.
PushingOver == pc \in {"rmtree", "idle"}

\* At most two pushes, 'main' first, 'master' only after a failed 'main'.
PushOrder ==
    /\ Pushes \in {<<>>, <<MainBranch>>, <<MainBranch, MasterBranch>>}
    /\ pc = "push_master" => (Pushes = <<MainBranch>> /\ push_result.returncode # 0)

RetryStep ==
    /\ (pc = "push_main" /\ Pushes' = <<MainBranch>>) =>
          (pc' = "push_master" <=>
              (push_result'.returncode # 0 /\ In(MainBranch, push_result'.stderr)))
    /\ (pc = "push_master" /\ Pushes' # Pushes) =>
          (Pushes' = <<MainBranch, MasterBranch>> /\ pc' = "rmtree")
    /\ PushingOver => (Pushes' = Pushes \/ Pushes' = <<>>)

RefspecNoMatch ==
    <<"s","r","c"," ","r","e","f","s","p","e","c"," ","m","a","i","n"," ","d","o","e","s"," ",
      "n","o","t"," ","m","a","t","c","h">>

\* The failure of the push is that the branch pushed does not exist.
BranchMissing(r) == r.returncode # 0 /\ In(RefspecNoMatch, r.stderr)

\* C11: the retry against 'master' is made only when the push to 'main'
\* failed because that branch does not exist; any other failure of the push
\* to 'main' ends the attempt with the push-failed outcome, which carries
\* that push's error output.
C11_RetryOnlyWhenBranchMissing ==
    /\ pc = "push_master" => BranchMissing(push_result)
    /\ (PushingOver /\ Pushes = <<MainBranch>> /\ pending.outcome = "push_failed") =>
          pending.detail = push_result.stderr

\* The publish outcomes the approval gate names one by one.
NamedPublishOutcomes ==
    {"no_artifact", "not_configured", "clone_failed", "nothing_to_commit",
     "commit_failed", "push_failed", "success"}

\* What run_multi_agent raises to its caller instead of returning.
RaisedToCaller ==
    {"Exception", "ValueError", "AttributeError", "ModelInvocationError", "CancelledError"}

\* Nothing is returned while the approve decision is handled, and what is
\* returned in the end is one message with one outcome out of the set given.
ReturnsOneOutcome(outcomes) ==
    IsApproveDecision(input) =>
        /\ response.outcome \notin RaisedToCaller
        /\ IF pc = "idle"
           THEN response.outcome \in outcomes
           ELSE InPublish /\ response = NoResponse

\* C12 as stated: handling an approve decision never raises to the caller and
\* returns one message that reports one of no-artifact, not-configured,
\* clone-failed, nothing-to-commit, commit-failed, push-failed or success,
\* whatever the publish steps return or raise.
C12_OneNamedOutcome == ReturnsOneOutcome(NamedPublishOutcomes)

\* C12, amended: handling an approve decision never raises to the caller and
\* returns one message that reports one of the seven named outcomes or, when
\* a publish step raised, the general error-during-push outcome.
C12_OneOutcome == ReturnsOneOutcome(NamedPublishOutcomes \cup {"push_error"})

\* A publish step raised after the workspace was created; the request returned.
C12_Witness ==
    /\ pc = "idle"
    /\ IsApproveDecision(input)
    /\ response.outcome = "push_error"
    /\ temp_dir # "none"

Ran(name) == \E i \in 1..Len(cmds) : cmds[i].name = name

\* The names of the git commands run so far, the optional git config aside.
StepNames ==
    LET RECURSIVE Collect(_)
        Collect(i) ==
            IF i > Len(cmds) THEN <<>>
            ELSE (IF cmds[i].name \in {"config user.email", "config user.name"}
                  THEN <<>> ELSE <<cmds[i].name>>) \o Collect(i + 1)
    IN Collect(1)

IsPrefix(s, t) == Len(s) <= Len(t) /\ s = SubSeq(t, 1, Len(s))

\* The commit's output says that there was nothing to commit.
NothingToCommitReported ==
    \/ In(NothingToCommit, commit_result.stdout)
    \/ In(NothingToCommit, commit_result.stderr)

\* Clone, commit and push run in this order; a failed clone or commit ends
\* the attempt with its own outcome and nothing is run after it.
PublishOrder ==
    /\ IsPrefix(StepNames, <<"clone", "add", "commit", "push", "push">>)
    /\ Ran("commit") => clone_result.returncode = 0
    /\ Ran("push") => (clone_result.returncode = 0 /\ commit_result.returncode = 0)
    /\ (Ran("clone") /\ clone_result.returncode # 0) =>
          /\ PushingOver
          /\ pending.outcome = "clone_failed"
          /\ StepNames = <<"clone">>
          /\ dest_file = None
    /\ (Ran("commit") /\ commit_result.returncode # 0) =>
          /\ PushingOver
          /\ StepNames = <<"clone", "add", "commit">>
          /\ pending.outcome =
                IF NothingToCommitReported THEN "nothing_to_commit" ELSE "commit_failed"
    /\ pending.outcome = "clone_failed" => clone_result.returncode # 0
    /\ pending.outcome \in {"nothing_to_commit", "commit_failed"} =>
          commit_result.returncode # 0
    /\ pending.outcome \in {"success", "push_failed"} => Ran("push")

\* The artifact is copied into the workspace after a successful clone and
\* before anything is committed.
CopyStep ==
    (dest_file' # dest_file /\ dest_file' # None) =>
        /\ StepNames = <<"clone">>
        /\ clone_result.returncode = 0
        /\ cmds' = cmds

\* C13: the publish steps run in the order clone, copy, commit, push, and a
\* push is attempted only after the clone succeeded and the commit exited
\* successfully. A commit that fails saying 'nothing to commit' gives the
\* nothing-to-commit outcome, any other failed commit the commit-failed
\* outcome, a failed clone the clone-failed outcome with no copy and no
\* commit: none of the three is followed by a push.
C13_PublishOrder == []PublishOrder /\ [][CopyStep]_vars

\* An attempt that cloned, copied and committed, was told that there was
\* nothing to commit, and returned without a push.
C13_Witness ==
    /\ pc = "idle"
    /\ response.outcome = "nothing_to_commit"
    /\ StepNames = <<"clone", "add", "commit">>
    /\ commit_result.returncode # 0
    /\ ~Ran("push")

\* No step taken for an approve decision changes the artifact file.
ApproveKeepsArtifact == IsApproveDecision(input') => html_file' = html_file

\* C14: handling an approve decision never modifies or deletes the artifact
\* file: its content is the same after the request as before it, whatever
\* the publish outcome, a step that raises included.
C14_ApproveKeepsArtifact == [][ApproveKeepsArtifact]_vars

\* An approve decision went through the copy into the workspace and returned
\* a failed push, with the artifact file still in place.
C14_Witness ==
    /\ pc = "idle"
    /\ IsApproveDecision(input)
    /\ response.outcome = "push_failed"
    /\ Ran("commit")
    /\ html_file # None
    /\ html_file # <<>>

\* The input is the words NOT APPROVED in any letter case, surrounding
\* whitespace aside.
IsRejectDecision(inp) ==
    LET words == Strip(inp)
    IN /\ Len(words) = Len(NOT_APPROVED)
       /\ \A k \in 1..Len(words) : SameLetter(words[k], NOT_APPROVED[k])

\* A reject decision is answered at once: no agent turn, no workspace, no
\* git command, and it is not handled as an approval.
RejectState ==
    IsRejectDecision(input) =>
        /\ pc = "idle"
        /\ response.outcome = "acknowledged"
        /\ caller = "none"
        /\ results = <<>>
        /\ temp_dir = "none"
        /\ cmds = <<>>
        /\ dest_file = None

\* Neither the artifact file nor the transcript file is written.
RejectStep ==
    IsRejectDecision(input') => (html_file' = html_file /\ chat_history' = chat_history)

\* C15: a reject decision ('NOT APPROVED' in any letter case, surrounding
\* whitespace ignored) has no side effect: no agent turn is taken, neither
\* the artifact file nor the transcript file is written, no workspace is
\* created and no git command runs; it is never treated as an approval.
C15_RejectHasNoEffect == []RejectState /\ [][RejectStep]_vars

\* A mixed-case, padded reject decision answered while an artifact and a
\* transcript are on disk.
C15_Witness ==
    /\ input = InNotApprovedLower
    /\ response.outcome = "acknowledged"
    /\ html_file # None
    /\ chat_history # None

\* ---------------------------------------------------------------- the extraction on its own

\* Replies that carry markup in other shapes and from other authors.

\* "<!DOCTYPE html><html>B</html>"
SeDoctypeHtml ==
    <<"<","!","D","O","C","T","Y","P","E"," ","h","t","m","l",">","<","h","t","m","l",">","B",
      "<","/","h","t","m","l",">">>

\* "Use '''html <b>x</b> '''"
PoDefectSnippet ==
    <<"U","s","e"," ",BQ,BQ,BQ,"h","t","m","l"," ","<","b",">","x","<","/","b",">"," ",BQ,BQ,BQ>>

\* "READY FOR USER APPROVAL '''html\n<p>ok</p>\n'''"
PoReadyQuotesHtml ==
    <<"R","E","A","D","Y"," ","F","O","R"," ","U","S","E","R"," ","A","P","P","R","O","V","A",
      "L"," ",BQ,BQ,BQ,"h","t","m","l","\n","<","p",">","o","k","<","/","p",">","\n",BQ,BQ,BQ>>


MaxExtractRounds == 3

ExtractSeReplies == {SeFencedHtml, SeDoctypeHtml, SeQuestion}
ExtractPoDefects == {PoDefect, PoDefectSnippet}
ExtractPoReady == {PoReadyUpper, PoReadyQuotesHtml}

\* The three messages one iteration of orchestrate appends.
Round(se_response, po_response) ==
    <<Message("assistant", "BusinessAnalyst", BaPlan),
      Message("assistant", "SoftwareEngineer", se_response),
      Message("assistant", "ProductOwner", po_response)>>

\* n iterations in which the reviewer did not signal readiness.
RECURSIVE OpenRounds(_)
OpenRounds(n) ==
    IF n = 0
    THEN {<<>>}
    ELSE {t \o Round(se, po) : t \in OpenRounds(n - 1),
                               se \in ExtractSeReplies, po \in ExtractPoDefects}

\* What orchestrate returns when the reviewer signals readiness in the
\* iteration numbered n: the user's message, n open iterations, the last
\* iteration and the approval prompt.
ReadyConversations(n) ==
    {<<Message("user", "User", InTodoApp)>> \o t \o Round(se, po) \o <<ApprovalPrompt>> :
        t \in OpenRounds(n), se \in ExtractSeReplies, po \in ExtractPoReady}

\* The calls orchestrate made for a conversation it returns after the
\* readiness phrase: one per agent message, each given the message before it.
CompletionsOf(msgs) ==
    [k \in 1..(Len(msgs) - 2) |->
        Completion(<<"ba", "se", "po">>[((k - 1) % 3) + 1], (k - 1) \div 3,
                   msgs[1].content, SubSeq(msgs, 1, k))]

\* run_multi_agent at line 376: orchestrate has just returned its conversation,
\* the artifact file is absent or left by an earlier run.
InitExtract ==
    /\ pc = "save"
    /\ caller = "run_multi_agent"
    /\ input = InTodoApp
    /\ max_iterations = DefaultMaxIterations
    /\ \E n \in 0..(MaxExtractRounds - 1) :
          /\ iteration = n
          /\ results \in ReadyConversations(n)
    /\ completions = CompletionsOf(results)
    /\ html_content = None
    /\ response = NoResponse
    /\ html_file \in {None, StripFences(ExtractFrom(SeDoctypeHtml, None))}
    /\ chat_history = None
    /\ env = NoEnv
    /\ temp_dir = "none"
    /\ cmds = <<>>
    /\ clone_result = NoResult
    /\ commit_result = NoResult
    /\ push_result = NoResult
    /\ dest_file = None
    /\ pending = NoResponse
    /\ other_pc = "idle"
    /\ other_dest_file = None

NextExtract ==
    \/ SaveAndExtract
    \/ WriteHtml

SpecExtract == InitExtract /\ [][NextExtract]_vars

\* The message is an implementer's and the extraction finds an artifact in it.
ImplementerArtifactAt(i) ==
    /\ results[i].agent = "SoftwareEngineer"
    /\ Truthy(ExtractFrom(results[i].content, None))

\* The artifact of the last implementer message that has one.
LastImplementerArtifact ==
    LET last == SetMax({i \in 1..Len(results) : ImplementerArtifactAt(i)})
    IN StripFences(ExtractFrom(results[last].content, None))

\* C16: the artifact persisted by a run is taken from the implementer's
\* messages: when implementer messages contain an artifact, the file holds
\* the one of the last such message, whatever the messages of the user, the
\* analyst, the reviewer or the system contain, before or after it.
C16_LastImplementerArtifactWins ==
    (/\ pc = "idle"
     /\ response.outcome = "conversation"
     /\ \E i \in 1..Len(results) : ImplementerArtifactAt(i)) =>
        html_file = LastImplementerArtifact

\* Every turn taken made one model call; a failed call is the last one of
\* its run and returned to no turn.
OneCallPerTurn ==
    /\ InOrchestrate => Len(completions) = AgentTurns
    /\ response.outcome = "ModelInvocationError" =>
          /\ pc = "idle"
          /\ Len(completions) = AgentTurns + 1

\* The failing call ends the run where it stands: the conversation gets no
\* further message and neither file is written, then or while the run runs.
FailureStep ==
    /\ (InOrchestrate /\ response'.outcome = "ModelInvocationError") =>
          /\ pc' = "idle"
          /\ results' = results
          /\ Len(completions') = Len(completions) + 1
    /\ (InOrchestrate \/ response'.outcome = "ModelInvocationError") =>
          (html_file' = html_file /\ chat_history' = chat_history)
    /\ (response.outcome = "ModelInvocationError" /\ pc' # "idle") => results' = <<>>

\* C17: when a model call fails the run fails with the error passed on to the
\* caller: the call is not made again (a turn makes one call), no further
\* turn is taken, and the run writes neither the transcript file nor the
\* artifact file.
C17_FailedCallEndsRun == []OneCallPerTurn /\ [][FailureStep]_vars

\* A request's run failed at a model call of its second iteration, with the
\* artifact of an earlier run on disk.
C17_Witness ==
    /\ pc = "idle"
    /\ caller = "run_multi_agent"
    /\ response.outcome = "ModelInvocationError"
    /\ AgentTurns >= 4
    /\ html_file # None

\* The text occurs in one of the messages given to the model.
GivenToModel(text, messages) ==
    \E m \in 1..Len(messages) : In(text, messages[m].content)

\* C18: at every agent turn the model is given the agent's own instructions
\* and the whole conversation so far, that is every message appended before
\* the turn, not only the last one.
C18_FullTranscriptGiven ==
    \A k \in 1..Len(completions) :
        /\ completions[k][1].content = Instructions(TurnAgent(k))
        /\ \A j \in 1..k : GivenToModel(Str(results[j].content), completions[k])

\* No message of the conversation has an html fence, a doctype or an html tag.
NoMarkup(msgs) ==
    \A i \in 1..Len(msgs) :
        \/ msgs[i].content = None
        \/ /\ ~In(FenceHtml, msgs[i].content)
           /\ ~In(Doctype, msgs[i].content)
           /\ ~In(HtmlOpen, msgs[i].content)

\* A run without markup ends normally and leaves the artifact file alone; the
\* file changes only when a run extracted something; the copy published is
\* the file as it stands.
KeepsLastArtifact ==
    /\ (pc = "save" /\ NoMarkup(results)) =>
          /\ pc' = "idle"
          /\ response'.outcome = "conversation"
          /\ html_file' = html_file
    /\ html_file' # html_file =>
          /\ pc \in {"save", "write"}
          /\ ~NoMarkup(results)
          /\ Truthy(html_content')
    /\ (pc = "copy" /\ pc' = "config") => (dest_file' = html_file /\ Truthy(dest_file'))

\* C19: a run in which no message yields an artifact completes normally and
\* leaves the artifact file exactly as it was; so, over a sequence of
\* requests, an approve decision publishes the artifact of the most recent
\* run that extracted one, which may be an earlier run than the latest.
C19_KeepsLastArtifact == [][KeepsLastArtifact]_vars

\* A run of two iterations without markup has returned its conversation, and
\* the artifact of an earlier run is still on disk.
C19_Witness ==
    /\ pc = "idle"
    /\ response.outcome = "conversation"
    /\ AgentTurns >= 6
    /\ NoMarkup(results)
    /\ html_content = None
    /\ html_file = StripFences(ExtractFrom(SeFencedHtml, None))

\* ---------------------------------------------------------------- a concurrent approve request

\* A second request, an approve decision, handled while the first one is
\* under way: its test of the artifact file (line 203). What it does between
\* the test and the copy touches its own workspace only.
OtherApprove ==
    /\ other_pc = "idle"
    /\ other_pc' = IF Exists(html_file) THEN "copy" ELSE "done"
    /\ UNCHANGED <<other_dest_file, pc, input, response, html_content, runVars, fileVars,
                   pubVars>>

\* Its shutil.copy2(html_path, dest_path): what it goes on to commit and push.
OtherCopy ==
    /\ other_pc = "copy"
    /\ other_dest_file' = html_file
    /\ other_pc' = "done"
    /\ UNCHANGED <<pc, input, response, html_content, runVars, fileVars, pubVars>>

NextConcurrent ==
    \/ Next
    \/ OtherApprove
    \/ OtherCopy

SpecConcurrent == Init /\ [][NextConcurrent]_vars

\* C20: the artifact file is replaced atomically: however a run that writes
\* the artifact interleaves with a concurrent approve request, what that
\* request reads is a complete artifact, the earlier one or the new one,
\* never an empty or partly written file.
C20_AtomicReplace == other_dest_file # None => Truthy(other_dest_file)

\* ---------------------------------------------------------------- a git command that never returns

\* subprocess.run(["git", ...]) is called without a timeout and waits for the
\* process to exit: when git never exits (a stalled connection, a prompt for
\* credentials) the call never returns and nothing in the handler runs again.
GitCommandHangs ==
    /\ pc \in {"clone", "config", "add", "commit", "push_main", "push_master"}
    /\ pc' = "hung"
    /\ UNCHANGED <<input, response, html_content, runVars, fileVars, pubVars, otherVars>>

\* run_multi_agent at line 223: an approve decision with the artifact on disk
\* and the repository configured is about to create its workspace.
InitPublish ==
    /\ pc = "mkdtemp"
    /\ caller = "none"
    /\ input \in {InApproved, InApprovedLower}
    /\ max_iterations = 0
    /\ iteration = 0
    /\ results = <<>>
    /\ completions = <<>>
    /\ html_content = None
    /\ response = NoResponse
    /\ html_file = StripFences(ExtractFrom(SeFencedHtml, None))
    /\ chat_history = None
    /\ env \in {e \in Envs : Truthy(e.github_repo_url)}
    /\ temp_dir = "none"
    /\ cmds = <<>>
    /\ clone_result = NoResult
    /\ commit_result = NoResult
    /\ push_result = NoResult
    /\ dest_file = None
    /\ pending = NoResponse
    /\ other_pc = "idle"
    /\ other_dest_file = None

NextHang ==
    \/ MakeTempDir
    \/ MakeTempDirFails
    \/ Clone
    \/ CopyArtifact
    \/ GitConfig
    \/ GitAdd
    \/ GitCommit
    \/ PushMain
    \/ PushMaster
    \/ StepRaises
    \/ RemoveTempDir
    \/ GitCommandHangs

\* The handler's code is sequential: a step whose external call returns is
\* taken. Nothing is assumed of failures or of hangs.
FairSpecHang ==
    /\ InitPublish /\ [][NextHang]_vars
    /\ WF_vars(MakeTempDir)
    /\ WF_vars(Clone)
    /\ WF_vars(CopyArtifact)
    /\ WF_vars(GitConfig)
    /\ WF_vars(GitAdd)
    /\ WF_vars(GitCommit)
    /\ WF_vars(PushMain)
    /\ WF_vars(PushMaster)
    /\ WF_vars(RemoveTempDir)

\* C21: every external call is bounded by a timeout: when a model call or a
\* git command (clone, config, add, commit, push) never returns, the run or
\* the publish attempt still ends in time with a reported error, so every
\* request that is being handled is answered eventually.
C21_EveryRequestEnds == (pc # "idle") ~> (pc = "idle")

====
